---- MODULE Spec2Model ----
(***************************************************************************)
(* Month-row reconciliation of a revenue spreadsheet: the month-cell       *)
(* parser (src/src/sheets.py parse_month_cell_to_yyyymm), the month-row    *)
(* reconciler (build_month_row_index, ensure_month_rows) and the run block *)
(* of src/app.py that calls them.                                          *)
(*                                                                         *)
(* A Python str is a sequence of one-character strings; None and the empty *)
(* str are both the empty sequence (the code only tests them for truth).   *)
(***************************************************************************)
EXTENDS Integers, Sequences, FiniteSets, TLC

VARIABLES
    sheet,            \* the worksheet: a sequence of rows, row 1 the header
    orig,             \* the worksheet as it was before the first call
    mode,             \* "serial": one reconciliation in flight at a time
    months,           \* months[p]: the argument `months` of caller p
    pc,               \* pc[p]: where caller p is in ensure_month_rows
    existing_sorted,  \* existing_sorted[p]: the working list of (row, month)
    missing,          \* missing[p]: the months still to insert
    ret,              \* ret[p]: the mapping returned to caller p
    before,           \* before[p]: the worksheet when the call began
    inserted,         \* inserted[p]: the (insert_at, month) of this call, in order
    calls,            \* calls of ensure_month_rows begun so far
    hist,             \* the finished calls, oldest first
    cell_value,       \* parser: the cell handed to the parser
    parsed,           \* parser: what the parser returned
    ppc,              \* parser: "ready" or "done"
    rpc,              \* run block of app.py: where the run is
    form,             \* run: the form as filled in when the button is pressed
    headers,          \* run: row 1 of the worksheet, ws.row_values(1)
    month_to_row,     \* run: the mapping the rows step produced
    results,          \* run: the revenue maps queried so far, in query order
    written,          \* run: the batch handed to ws.batch_update
    trace             \* run: the calls made on the sheet and the revenue API

vars == <<sheet, orig, mode, months, pc, existing_sorted, missing, ret, before,
          inserted, calls, hist, cell_value, parsed, ppc,
          rpc, form, headers, month_to_row, results, written, trace>>

runVars == <<rpc, form, headers, month_to_row, results, written, trace>>

recVars == <<sheet, orig, mode, months, pc, existing_sorted, missing, ret, before,
             inserted, calls, hist>>

parseVars == <<cell_value, parsed, ppc>>

----------------------------------------------------------------------------
(* Characters and strings                                                  *)

Digits == <<"0","1","2","3","4","5","6","7","8","9">>

UpperAlpha ==
    <<"A","B","C","D","E","F","G","H","I","J","K","L","M",
      "N","O","P","Q","R","S","T","U","V","W","X","Y","Z">>

LowerAlpha ==
    <<"a","b","c","d","e","f","g","h","i","j","k","l","m",
      "n","o","p","q","r","s","t","u","v","w","x","y","z">>

\* The characters of the model in code-point order (str comparison).
CodePoints ==
    <<"\t"," ","-",".","/">> \o Digits \o UpperAlpha \o <<"_">> \o LowerAlpha

Range(f) == { f[i] : i \in DOMAIN f }

IndexOf(seq, c) == CHOOSE i \in DOMAIN seq : seq[i] = c

Ord(c) == IndexOf(CodePoints, c)

DigitSet == Range(Digits)

IsDigit(c) == c \in DigitSet

IsSpace(c) == c \in {" ", "\t"}

\* \w of the re module: letters, digits and the underscore.
WordChars == Range(Digits) \cup Range(UpperAlpha) \cup Range(LowerAlpha) \cup {"_"}

IsWordChar(c) == c \in WordChars

DigitVal(c) == IndexOf(Digits, c) - 1

AllDigits(s, lo, hi) == hi <= Len(s) /\ \A i \in lo..hi : IsDigit(s[i])

None == <<>>

\* a < b on str: the first differing character decides, a proper prefix is smaller.
StrLess(a, b) ==
    \E i \in 1..Len(b) :
        /\ i <= Len(a) + 1
        /\ \A j \in 1..(i - 1) : a[j] = b[j]
        /\ (i = Len(a) + 1 \/ Ord(a[i]) < Ord(b[i]))

UpperSet == Range(UpperAlpha)

LowerChar(c) == IF c \in UpperSet THEN LowerAlpha[IndexOf(UpperAlpha, c)] ELSE c

StrLower(s) == [i \in 1..Len(s) |-> LowerChar(s[i])]

RECURSIVE LStrip(_)
LStrip(s) == IF s # <<>> /\ IsSpace(Head(s)) THEN LStrip(Tail(s)) ELSE s

RECURSIVE RStrip(_)
RStrip(s) ==
    IF s # <<>> /\ IsSpace(s[Len(s)]) THEN RStrip(SubSeq(s, 1, Len(s) - 1)) ELSE s

Strip(s) == RStrip(LStrip(s))

\* int() of a run of decimal digits.
RECURSIVE ToInt(_)
ToInt(s) ==
    IF s = <<>> THEN 0 ELSE 10 * ToInt(SubSeq(s, 1, Len(s) - 1)) + DigitVal(s[Len(s)])

RECURSIVE DecimalDigits(_)
DecimalDigits(n) ==
    IF n < 10 THEN <<Digits[n + 1]>> ELSE DecimalDigits(n \div 10) \o <<Digits[(n % 10) + 1]>>

RECURSIVE ZeroPad(_, _)
ZeroPad(s, width) == IF Len(s) >= width THEN s ELSE ZeroPad(<<"0">> \o s, width)

\* format(n, "0<width>d"): zero-padded on the left, never cut.
FormatInt(n, width) == ZeroPad(DecimalDigits(n), width)

\* re.split(r"\s+", s) of a stripped, non-empty s.
RECURSIVE SplitWs(_, _, _)
SplitWs(s, cur, acc) ==
    IF s = <<>> THEN Append(acc, cur)
    ELSE IF IsSpace(Head(s))
         THEN SplitWs(LStrip(s), <<>>, Append(acc, cur))
         ELSE SplitWs(Tail(s), Append(cur, Head(s)), acc)

\* " ".join(parts)
RECURSIVE JoinSpace(_)
JoinSpace(parts) ==
    IF parts = <<>> THEN <<>>
    ELSE IF Len(parts) = 1 THEN parts[1]
    ELSE parts[1] \o <<" ">> \o JoinSpace(Tail(parts))

\* re.sub(r"[^\w]+", "", s)
DropNonWord(s) == SelectSeq(s, IsWordChar)

----------------------------------------------------------------------------
(* Month-cell parser                                                       *)

\* _MONTHS: Romanian and English month names and abbreviations.
MONTHS ==
    { [name |-> <<"i","a","n","u","a","r","i","e">>, mm |-> 1],
      [name |-> <<"i","a","n">>, mm |-> 1],
      [name |-> <<"f","e","b","r","u","a","r","i","e">>, mm |-> 2],
      [name |-> <<"f","e","b">>, mm |-> 2],
      [name |-> <<"m","a","r","t","i","e">>, mm |-> 3],
      [name |-> <<"m","a","r">>, mm |-> 3],
      [name |-> <<"a","p","r","i","l","i","e">>, mm |-> 4],
      [name |-> <<"a","p","r">>, mm |-> 4],
      [name |-> <<"m","a","i">>, mm |-> 5],
      [name |-> <<"i","u","n","i","e">>, mm |-> 6],
      [name |-> <<"i","u","n">>, mm |-> 6],
      [name |-> <<"i","u","l","i","e">>, mm |-> 7],
      [name |-> <<"i","u","l">>, mm |-> 7],
      [name |-> <<"a","u","g","u","s","t">>, mm |-> 8],
      [name |-> <<"a","u","g">>, mm |-> 8],
      [name |-> <<"s","e","p","t","e","m","b","r","i","e">>, mm |-> 9],
      [name |-> <<"s","e","p","t">>, mm |-> 9],
      [name |-> <<"s","e","p">>, mm |-> 9],
      [name |-> <<"o","c","t","o","m","b","r","i","e">>, mm |-> 10],
      [name |-> <<"o","c","t">>, mm |-> 10],
      [name |-> <<"n","o","i","e","m","b","r","i","e">>, mm |-> 11],
      [name |-> <<"n","o","i">>, mm |-> 11],
      [name |-> <<"n","o","v">>, mm |-> 11],
      [name |-> <<"d","e","c","e","m","b","r","i","e">>, mm |-> 12],
      [name |-> <<"d","e","c">>, mm |-> 12],
      [name |-> <<"j","a","n","u","a","r","y">>, mm |-> 1],
      [name |-> <<"j","a","n">>, mm |-> 1],
      [name |-> <<"f","e","b","r","u","a","r","y">>, mm |-> 2],
      [name |-> <<"m","a","r","c","h">>, mm |-> 3],
      [name |-> <<"a","p","r","i","l">>, mm |-> 4],
      [name |-> <<"m","a","y">>, mm |-> 5],
      [name |-> <<"j","u","n","e">>, mm |-> 6],
      [name |-> <<"j","u","n">>, mm |-> 6],
      [name |-> <<"j","u","l","y">>, mm |-> 7],
      [name |-> <<"j","u","l">>, mm |-> 7],
      [name |-> <<"s","e","p","t","e","m","b","e","r">>, mm |-> 9],
      [name |-> <<"o","c","t","o","b","e","r">>, mm |-> 10],
      [name |-> <<"n","o","v","e","m","b","e","r">>, mm |-> 11],
      [name |-> <<"d","e","c","e","m","b","e","r">>, mm |-> 12] }

MonthNames == { e.name : e \in MONTHS }

MonthNumber(name) == (CHOOSE e \in MONTHS : e.name = name).mm

\* re.match(r"^(\d{4})-(\d{2})-(\d{2})", s)
MatchIso(s) ==
    /\ Len(s) >= 10
    /\ AllDigits(s, 1, 4) /\ s[5] = "-"
    /\ AllDigits(s, 6, 7) /\ s[8] = "-"
    /\ AllDigits(s, 9, 10)

\* Faulty variant: the third group (the day) is returned as the month.
IsoMonthFromDay(s) == SubSeq(s, 1, 4) \o <<"-">> \o SubSeq(s, 9, 10)

\* f"{m.group(1)}-{m.group(2)}"
IsoMonth(s) == SubSeq(s, 1, 4) \o <<"-">> \o SubSeq(s, 6, 7)

\* re.match(r"^(\d{1,2})/(\d{1,2})/(\d{4})", s) with A of la and B of lb digits.
MatchSlashAt(s, la, lb) ==
    /\ Len(s) >= la + lb + 6
    /\ AllDigits(s, 1, la) /\ s[la + 1] = "/"
    /\ AllDigits(s, la + 2, la + lb + 1) /\ s[la + lb + 2] = "/"
    /\ AllDigits(s, la + lb + 3, la + lb + 6)

SlashSplits(s) == { ab \in {1, 2} \X {1, 2} : MatchSlashAt(s, ab[1], ab[2]) }

\* The greedy match: the longest A, then the longest B.
SlashSplit(s) ==
    CHOOSE ab \in SlashSplits(s) :
        \A cd \in SlashSplits(s) :
            cd[1] < ab[1] \/ (cd[1] = ab[1] /\ cd[2] <= ab[2])

\* Faulty variant: two fields that both could be the month are read as dd/mm.
SlashPickDayFirst(a, b) == IF a > 12 THEN b ELSE IF b > 12 THEN a ELSE b

\* The heuristic: a > 12 is dd/mm, b > 12 is mm/dd, otherwise mm/dd is assumed.
SlashPick(a, b) == IF a > 12 THEN b ELSE IF b > 12 THEN a ELSE a

SlashMonth(s) ==
    LET la == SlashSplit(s)[1]
        lb == SlashSplit(s)[2]
        a  == ToInt(SubSeq(s, 1, la))
        b  == ToInt(SubSeq(s, la + 2, la + lb + 1))
        yy == ToInt(SubSeq(s, la + lb + 3, la + lb + 6))
        mm == SlashPick(a, b)
    IN  FormatInt(yy, 4) \o <<"-">> \o FormatInt(mm, 2)

\* Month name + year: the last token is the year, the rest names the month.
NameParts(s) == SplitWs(StrLower(s), <<>>, <<>>)

MatchName(s) ==
    LET parts == NameParts(s)
    IN  /\ Len(parts) >= 2
        /\ parts[Len(parts)] # <<>>
        /\ AllDigits(parts[Len(parts)], 1, Len(parts[Len(parts)]))
        /\ DropNonWord(Strip(JoinSpace(SubSeq(parts, 1, Len(parts) - 1)))) \in MonthNames

NameMonth(s) ==
    LET parts == NameParts(s)
        year  == ToInt(parts[Len(parts)])
        month_name == DropNonWord(Strip(JoinSpace(SubSeq(parts, 1, Len(parts) - 1))))
    IN  FormatInt(year, 4) \o <<"-">> \o FormatInt(MonthNumber(month_name), 2)

\* re.match(r"^(\d{4})-(\d{2})$", s)
MatchYearMonth(s) ==
    /\ Len(s) = 7
    /\ AllDigits(s, 1, 4) /\ s[5] = "-"
    /\ AllDigits(s, 6, 7)

parse_month_cell_to_yyyymm(v) ==
    LET s == Strip(v)
    IN  IF s = <<>> THEN None
        ELSE IF MatchIso(s) THEN IsoMonth(s)
        ELSE IF SlashSplits(s) # {} THEN SlashMonth(s)
        ELSE IF MatchName(s) THEN NameMonth(s)
        ELSE IF MatchYearMonth(s) THEN s
        ELSE None

----------------------------------------------------------------------------
(* Month-row reconciler: pure parts                                        *)

\* A worksheet row: its column-A cell and the rest of the row (0: blank).
Row(a, data) == [a |-> a, data |-> data]

\* ws.col_values(1)
col_values(ws) == [i \in 1..Len(ws) |-> ws[i].a]

\* The dict `out` with out[key] = value.
DictSet(out, key, value) ==
    [k \in (DOMAIN out) \cup {key} |-> IF k = key THEN value ELSE out[k]]

EmptyDict == [k \in {} |-> 0]

\* Faulty variant: rows counted from 0 (enumerate without start=1).
RECURSIVE BuildIndexFromZero(_, _, _)
BuildIndexFromZero(colA, i, out) ==
    IF i > Len(colA) THEN out
    ELSE IF i = 1 THEN BuildIndexFromZero(colA, i + 1, out)
    ELSE LET yyyymm == parse_month_cell_to_yyyymm(colA[i])
         IN  IF yyyymm # None
             THEN BuildIndexFromZero(colA, i + 1, DictSet(out, yyyymm, i - 1))
             ELSE BuildIndexFromZero(colA, i + 1, out)

RECURSIVE BuildIndexFrom(_, _, _)
BuildIndexFrom(colA, i, out) ==
    IF i > Len(colA) THEN out
    ELSE IF i = 1 THEN BuildIndexFrom(colA, i + 1, out)
    ELSE LET yyyymm == parse_month_cell_to_yyyymm(colA[i])
         IN  IF yyyymm # None
             THEN BuildIndexFrom(colA, i + 1, DictSet(out, yyyymm, i))
             ELSE BuildIndexFrom(colA, i + 1, out)

build_month_row_index(ws) == BuildIndexFrom(col_values(ws), 1, EmptyDict)

\* The list `existing` of (row_index, yyyymm), in row order, header row skipped.
\* Faulty variant: the header row is parsed like any other row.
RECURSIVE ExistingFromHeader(_, _, _)
ExistingFromHeader(colA, i, existing) ==
    IF i > Len(colA) THEN existing
    ELSE LET yyyymm == parse_month_cell_to_yyyymm(colA[i])
         IN  IF yyyymm # None
             THEN ExistingFromHeader(colA, i + 1, Append(existing, <<i, yyyymm>>))
             ELSE ExistingFromHeader(colA, i + 1, existing)

RECURSIVE ExistingFrom(_, _, _)
ExistingFrom(colA, i, existing) ==
    IF i > Len(colA) THEN existing
    ELSE IF i = 1 THEN ExistingFrom(colA, i + 1, existing)
    ELSE LET yyyymm == parse_month_cell_to_yyyymm(colA[i])
         IN  IF yyyymm # None
             THEN ExistingFrom(colA, i + 1, Append(existing, <<i, yyyymm>>))
             ELSE ExistingFrom(colA, i + 1, existing)

\* Faulty variant: the first data row is skipped along with the header.
ExistingBelowRowTwo(colA) == ExistingFrom(colA, 3, <<>>)

Existing(colA) == ExistingFrom(colA, 1, <<>>)

\* One step of a stable sort by month: e goes after every entry not greater.
RECURSIVE InsertByMonth(_, _)
InsertByMonth(sorted, e) ==
    IF sorted = <<>> THEN <<e>>
    ELSE IF StrLess(e[2], Head(sorted)[2]) THEN <<e>> \o sorted
    ELSE <<Head(sorted)>> \o InsertByMonth(Tail(sorted), e)

\* sorted(pairs, key=lambda x: x[1]); list.sort(key=...) likewise (stable).
RECURSIVE SortByMonth(_)
SortByMonth(pairs) ==
    IF pairs = <<>> THEN <<>>
    ELSE InsertByMonth(SortByMonth(SubSeq(pairs, 1, Len(pairs) - 1)), pairs[Len(pairs)])

StrMin(S) == CHOOSE m \in S : \A n \in S : n = m \/ StrLess(m, n)

RECURSIVE SortedStrings(_)
SortedStrings(S) ==
    IF S = {} THEN <<>> ELSE <<StrMin(S)>> \o SortedStrings(S \ {StrMin(S)})

\* target_months = sorted(set(months))
TargetMonths(ms) == SortedStrings(Range(ms))

ExistingMonths(existing) == { existing[i][2] : i \in DOMAIN existing }

\* Faulty variant: the months already in the worksheet are not taken out.
MissingIgnoringExisting(ms, existing) == TargetMonths(ms)

\* missing = [m for m in target_months if m not in existing_months]
Missing(ms, existing) ==
    LET existing_months == ExistingMonths(existing)
        Absent(m) == m \notin existing_months
    IN  SelectSeq(TargetMonths(ms), Absent)

LaterRows(es, target) ==
    { i \in DOMAIN es : StrLess(target, es[i][2]) }

Min(S) == CHOOSE x \in S : \A y \in S : x <= y

\* Faulty variant: with no month known yet the first month goes to row 1.
InsertRowIndexEmptyAtRowOne(es, target) ==
    IF LaterRows(es, target) # {}
    THEN es[Min(LaterRows(es, target))][1]
    ELSE IF es # <<>>
    THEN es[Len(es)][1] + 1
    ELSE 1

\* Faulty variant: the scan for a later month is skipped, the row is always appended.
InsertRowIndexAppendOnly(es, target) ==
    IF es # <<>> THEN es[Len(es)][1] + 1 ELSE 2

\* Faulty variant: the row goes below the first later month instead of above it.
InsertRowIndexBelowLater(es, target) ==
    IF LaterRows(es, target) # {}
    THEN es[Min(LaterRows(es, target))][1] + 1
    ELSE IF es # <<>>
    THEN es[Len(es)][1] + 1
    ELSE 2

insert_row_index_for_month(es, target) ==
    IF LaterRows(es, target) # {}
    THEN es[Min(LaterRows(es, target))][1]
    ELSE IF es # <<>>
    THEN es[Len(es)][1] + 1
    ELSE 2

\* Faulty variant: the day is written without its leading zero.
DateStrDayUnpadded(m) == m \o <<"-","1">>

\* date_str = f"{m}-01"
DateStr(m) == m \o <<"-","0","1">>

\* Faulty variant: the cell of row insert_at is overwritten, no row is inserted.
InsertRowOverwrite(ws, date_str, insert_at) ==
    IF insert_at > Len(ws) THEN Append(ws, Row(date_str, 0))
    ELSE [ws EXCEPT ![insert_at] = Row(date_str, ws[insert_at].data)]

\* ws.insert_row([date_str], index=insert_at): rows >= insert_at move down by one.
\* The new cell is read back as the string that was written.
insert_row(ws, date_str, insert_at) ==
    SubSeq(ws, 1, insert_at - 1) \o <<Row(date_str, 0)>> \o SubSeq(ws, insert_at, Len(ws))

\* Faulty variant: the row that was at insert_at is not moved down.
ShiftedBelowOnly(es, insert_at) ==
    [i \in 1..Len(es) |->
        IF es[i][1] > insert_at THEN <<es[i][1] + 1, es[i][2]>> ELSE es[i]]

\* The tracked indices after an insertion at insert_at.
Shifted(es, insert_at) ==
    [i \in 1..Len(es) |->
        IF es[i][1] >= insert_at
        THEN <<es[i][1] + 1, es[i][2]>>
        ELSE es[i]]

\* existing_sorted after the insertion of month m at insert_at.
Tracked(es, insert_at, m) ==
    SortByMonth(Append(Shifted(es, insert_at), <<insert_at, m>>))

----------------------------------------------------------------------------
(* Month-row reconciler: the worksheets and arguments explored             *)

MaxRows == 2

MaxCalls == 2

Callers == {1, 2}

HeaderPool == { <<"L","u","n","a">>, <<"2","0","2","5","-","0","2","-","0","1">> }

CellPool ==
    { <<"2","0","2","5","-","0","1","-","0","1">>, <<"0","3","/","1","5","/","2","0","2","5">>, <<"F","e","b"," ","2","0","2","5">>, <<"2","0","2","5","-","0","4">>, <<"t","o","t","a","l">> }

TargetLists ==
    { <<>>,
      <<<<"2","0","2","5","-","0","2">>>>,
      <<<<"2","0","2","5","-","0","1">>>>,
      <<<<"2","0","2","5","-","0","5">>>>,
      <<<<"2","0","2","5","-","0","3">>, <<"2","0","2","5","-","0","2">>>>,
      <<<<"2","0","2","5","-","0","2">>, <<"2","0","2","5","-","0","2">>>>,
      <<<<"2","0","2","4","-","1","2">>, <<"2","0","2","5","-","0","3">>>>,
      <<<<"2","0","2","5","-","0","1">>, <<"2","0","2","5","-","0","2">>, <<"2","0","2","5","-","0","3">>>> }

\* A worksheet with header h and the column-A cells `cells` below it.
Worksheet(h, cells) ==
    <<Row(h, 1)>> \o [i \in 1..Len(cells) |-> Row(cells[i], i + 1)]

Worksheets ==
    { Worksheet(h, cells) :
        h \in HeaderPool, cells \in UNION { [1..n -> CellPool] : n \in 0..MaxRows } }

Idle == [p \in Callers |-> "idle"]

ParserIdle == cell_value = <<>> /\ parsed = None /\ ppc = "off"

RunIdle ==
    /\ rpc = "off"
    /\ form = [filled |-> FALSE, auto_create |-> FALSE]
    /\ headers = <<>>
    /\ month_to_row = EmptyDict
    /\ results = <<>>
    /\ written = <<>>
    /\ trace = <<>>

InitReconciler(ws, ms, md) ==
    /\ sheet = ws
    /\ orig = ws
    /\ mode = md
    /\ months = ms
    /\ pc = Idle
    /\ existing_sorted = [p \in Callers |-> <<>>]
    /\ missing = [p \in Callers |-> <<>>]
    /\ ret = [p \in Callers |-> EmptyDict]
    /\ before = [p \in Callers |-> <<>>]
    /\ inserted = [p \in Callers |-> <<>>]
    /\ calls = 0
    /\ hist = <<>>

----------------------------------------------------------------------------
(* ensure_month_rows, one step per round trip to the worksheet             *)

InFlight(p) == pc[p] \in {"insert", "reread"}

Finished(p, ok, index, ws) ==
    Append(hist, [caller |-> p, ok |-> ok, months |-> months[p], index |-> index,
                  inserted |-> inserted[p], before |-> before[p], after |-> ws])

\* The call begins: column A is read, `existing` and `missing` are computed.
Call(p) ==
    /\ ~InFlight(p)
    /\ calls < MaxCalls
    /\ mode = "serial" => \A q \in Callers : ~InFlight(q)
    /\ LET existing == Existing(col_values(sheet))
           todo == IF months[p] = <<>> THEN <<>> ELSE Missing(months[p], existing)
       IN  /\ existing_sorted' =
                  [existing_sorted EXCEPT
                      ![p] = IF todo = <<>> THEN <<>> ELSE SortByMonth(existing)]
           /\ missing' = [missing EXCEPT ![p] = todo]
           /\ pc' = [pc EXCEPT ![p] = IF todo = <<>> THEN "reread" ELSE "insert"]
    /\ before' = [before EXCEPT ![p] = sheet]
    /\ inserted' = [inserted EXCEPT ![p] = <<>>]
    /\ calls' = calls + 1
    /\ UNCHANGED <<sheet, orig, mode, months, ret, hist>>
    /\ UNCHANGED parseVars
    /\ UNCHANGED runVars

\* One pass of the loop `for m in missing`: the row is inserted and tracked.
InsertMonth(p) ==
    /\ pc[p] = "insert"
    /\ LET m == Head(missing[p])
           insert_at == insert_row_index_for_month(existing_sorted[p], m)
       IN  /\ sheet' = insert_row(sheet, DateStr(m), insert_at)
           /\ existing_sorted' =
                  [existing_sorted EXCEPT ![p] = Tracked(existing_sorted[p], insert_at, m)]
           /\ inserted' = [inserted EXCEPT ![p] = Append(inserted[p], <<insert_at, m>>)]
    /\ missing' = [missing EXCEPT ![p] = Tail(missing[p])]
    /\ pc' = [pc EXCEPT ![p] = IF Tail(missing[p]) = <<>> THEN "reread" ELSE "insert"]
    /\ UNCHANGED <<orig, mode, months, ret, before, calls, hist>>
    /\ UNCHANGED parseVars
    /\ UNCHANGED runVars

\* ws.insert_row raises: the exception leaves ensure_month_rows, nothing is undone.
InsertFails(p) ==
    /\ pc[p] = "insert"
    /\ pc' = [pc EXCEPT ![p] = "failed"]
    /\ hist' = Finished(p, FALSE, EmptyDict, sheet)
    /\ UNCHANGED <<sheet, orig, mode, months, existing_sorted, missing, ret, before,
                   inserted, calls>>
    /\ UNCHANGED parseVars
    /\ UNCHANGED runVars

\* return build_month_row_index(ws): column A is read again.
Return(p) ==
    /\ pc[p] = "reread"
    /\ ret' = [ret EXCEPT ![p] = build_month_row_index(sheet)]
    /\ pc' = [pc EXCEPT ![p] = "done"]
    /\ hist' = Finished(p, TRUE, build_month_row_index(sheet), sheet)
    /\ UNCHANGED <<sheet, orig, mode, months, existing_sorted, missing, before,
                   inserted, calls>>
    /\ UNCHANGED parseVars
    /\ UNCHANGED runVars

\* One caller, calling again and again with the same `months`.
Init ==
    /\ \E ws \in Worksheets, ms \in TargetLists :
          InitReconciler(ws, [p \in Callers |-> IF p = 1 THEN ms ELSE <<>>], "serial")
    /\ ParserIdle
    /\ RunIdle

Next ==
    \/ Call(1)
    \/ InsertMonth(1)
    \/ InsertFails(1)
    \/ Return(1)

Spec == Init /\ [][Next]_vars

----------------------------------------------------------------------------
(* Vocabulary of the properties                                            *)

MonthOf(ws, r) == parse_month_cell_to_yyyymm(ws[r].a)

\* Column A as the parser reads it, row by row; the header row is not read.
Parsed(ws) == [r \in 1..Len(ws) |-> IF r = 1 THEN None ELSE MonthOf(ws, r)]

\* The rows below the header whose column-A cell is recognized as a month.
MonthRows(ws) == { r \in 2..Len(ws) : MonthOf(ws, r) # None }

RowsOf(ws, m) == { r \in 2..Len(ws) : MonthOf(ws, r) = m }

MonthsIn(ws) == LET col == Parsed(ws) IN { col[r] : r \in { q \in 2..Len(ws) : col[q] # None } }

\* A row inserted by ensure_month_rows: only column A is filled.
Blank(ws, r) == ws[r].data = 0

\* Month rows never go back in time from one row to a later one.
Ascending(ws) ==
    LET col == Parsed(ws)
    IN  \A r1, r2 \in { q \in 2..Len(ws) : col[q] # None } :
            r1 < r2 => ~StrLess(col[r2], col[r1])

StrictlyAscending(ws) ==
    LET col == Parsed(ws)
    IN  \A r1, r2 \in { q \in 2..Len(ws) : col[q] # None } :
            r1 < r2 => StrLess(col[r1], col[r2])

\* Every pair of month rows of which one was inserted is in month order.
OrderedAroundInserted(ws) ==
    LET col == Parsed(ws)
    IN  \A r1, r2 \in { q \in 2..Len(ws) : col[q] # None } :
            (Blank(ws, r1) \/ Blank(ws, r2)) /\ StrLess(col[r1], col[r2]) => r1 < r2

Max(S) == CHOOSE x \in S : \A y \in S : y <= x

RemoveAt(ws, r) == SubSeq(ws, 1, r - 1) \o SubSeq(ws, r + 1, Len(ws))

\* The worksheet with the logged insertions taken out again, last one first.
RECURSIVE Undo(_, _)
Undo(ws, ins) ==
    IF ins = <<>> THEN ws
    ELSE Undo(RemoveAt(ws, ins[Len(ins)][1]), SubSeq(ins, 1, Len(ins) - 1))

\* Each logged insertion, at the time it was made, put Row(m-01, blank) at its place.
RECURSIVE InsertedAsLogged(_, _)
InsertedAsLogged(ws, ins) ==
    \/ ins = <<>>
    \/ /\ ins[Len(ins)][1] \in 2..Len(ws)
       /\ ws[ins[Len(ins)][1]] = Row(DateStr(ins[Len(ins)][2]), 0)
       /\ InsertedAsLogged(RemoveAt(ws, ins[Len(ins)][1]), SubSeq(ins, 1, Len(ins) - 1))

MissingOf(h) == Missing(h.months, Existing(col_values(h.before)))

\* The call that has just ended, by its place in hist. Every call that ends is
\* the last of hist in the state its last step leads to, and its record never
\* changes afterwards.
JustEnded ==
    { i \in DOMAIN hist : i = Len(hist) /\ pc[hist[i].caller] \in {"done", "failed"} }

Done == { i \in JustEnded : hist[i].ok }

Failed == { i \in JustEnded : ~hist[i].ok }

----------------------------------------------------------------------------
(* Properties of the reconciler                                            *)

\* C1 (idempotence): when a call that completed is followed by another with the
\* same months, the second inserts no row, leaves the worksheet as the first left
\* it and returns the same mapping.
C1_Idempotent ==
    \A i \in Done :
        (i > 1 /\ hist[i - 1].ok) =>
            /\ hist[i].inserted = <<>>
            /\ hist[i].before = hist[i - 1].after
            /\ hist[i].after = hist[i - 1].after
            /\ hist[i].index = hist[i - 1].index

C1_Witness ==
    \E i \in Done : i > 1 /\ hist[i - 1].ok /\ Len(hist[i - 1].inserted) >= 2

\* C2 as stated: whatever the order of the month rows found, after a completed
\* first call every month row pair with an inserted row is in month order.
C2_OrderedOnAnySheet ==
    (Len(hist) = 1 /\ hist[1].ok) => OrderedAroundInserted(hist[1].after)

\* C2 (amended): when the month rows found at the start of the call are in
\* ascending month order by row, then after the call completes every pair of
\* month rows m1 < m2 with at least one inserted row has m1 above m2.
C2_OrderedOnAscendingSheet ==
    \A i \in Done :
        Ascending(hist[i].before) => OrderedAroundInserted(hist[i].after)

C2_Witness ==
    \E i \in Done :
        /\ Ascending(hist[i].before)
        /\ \E k \in DOMAIN hist[i].inserted :
              /\ \E m \in MonthsIn(hist[i].before) : StrLess(m, hist[i].inserted[k][2])
              /\ \E m \in MonthsIn(hist[i].before) : StrLess(hist[i].inserted[k][2], m)

\* The months of ws greater than m.
LaterMonths(ws, m) == { n \in MonthsIn(ws) : StrLess(m, n) }

\* The last insertion of caller 1 went right above the row of the smallest month
\* greater than the inserted one, when there is such a month.
LastInsertionInPlace ==
    LET ins == inserted[1]
        at  == ins[Len(ins)][1]
        m   == ins[Len(ins)][2]
    IN  /\ sheet[at] = Row(DateStr(m), 0)
        /\ LaterMonths(sheet, m) # {} =>
              /\ at + 1 <= Len(sheet)
              /\ MonthOf(sheet, at + 1) = StrMin(LaterMonths(sheet, m))

\* C3 (insertion correctness): on a worksheet whose month rows are in strictly
\* ascending order, every insertion puts m-01 right above the row of the smallest
\* month greater than m, and the mapping returned holds the months found and the
\* target months, ordered by row exactly as by month.
C3_InsertionCorrect ==
    /\ (StrictlyAscending(before[1]) /\ inserted[1] # <<>>) => LastInsertionInPlace
    /\ \A i \in Done :
          StrictlyAscending(hist[i].before) =>
              /\ [k \in DOMAIN hist[i].inserted |-> hist[i].inserted[k][2]] = MissingOf(hist[i])
              /\ DOMAIN hist[i].index = MonthsIn(hist[i].before) \cup Range(hist[i].months)
              /\ \A m1, m2 \in DOMAIN hist[i].index :
                    StrLess(m1, m2) <=> hist[i].index[m1] < hist[i].index[m2]

\* The example: 2025-01 at row 2, 2025-03 at row 3, target 2025-02.
C3_Witness ==
    /\ Len(hist) = 1 /\ hist[1].ok
    /\ col_values(hist[1].before) = <<<<"L","u","n","a">>, <<"2","0","2","5","-","0","1","-","0","1">>, <<"0","3","/","1","5","/","2","0","2","5">>>>
    /\ hist[1].months = <<<<"2","0","2","5","-","0","2">>>>
    /\ hist[1].inserted = << <<3, <<"2","0","2","5","-","0","2">>>> >>
    /\ hist[1].after[3].a = <<"2","0","2","5","-","0","2","-","0","1">>
    /\ hist[1].index[<<"2","0","2","5","-","0","1">>] = 2
    /\ hist[1].index[<<"2","0","2","5","-","0","2">>] = 3
    /\ hist[1].index[<<"2","0","2","5","-","0","3">>] = 4

\* C4 (ground truth): the mapping returned is the index of column A as the last
\* insertion left it (the months recognized below the header, each at its last
\* row), every target month is a key, and every entry points at a row of its month.
C4_ReturnedIndexIsGroundTruth ==
    \A i \in Done :
        LET index == hist[i].index
            ws    == hist[i].after
        IN  /\ DOMAIN index = MonthsIn(ws)
            /\ \A m \in DOMAIN index : index[m] = Max(RowsOf(ws, m))
            /\ Range(hist[i].months) \subseteq DOMAIN index
            /\ \A m \in DOMAIN index : MonthOf(ws, index[m]) = m

C4_Witness ==
    \E i \in Done :
        /\ hist[i].inserted # <<>>
        /\ \E m \in MonthsIn(hist[i].before) : Cardinality(RowsOf(hist[i].before, m)) = 2

\* C5 (retry after a failure): a failed call leaves the rows it had inserted and
\* nothing else changed; once a call with the same months completes, every
\* target month the original worksheet lacked has exactly one row.
C5_SafeRetry ==
    /\ \A i \in Failed :
          /\ Len(hist[i].after) = Len(hist[i].before) + Len(hist[i].inserted)
          /\ InsertedAsLogged(hist[i].after, hist[i].inserted)
          /\ Undo(hist[i].after, hist[i].inserted) = hist[i].before
    /\ \A i \in Done :
          \A m \in Range(hist[i].months) :
              m \notin MonthsIn(orig) => Cardinality(RowsOf(hist[i].after, m)) = 1

C5_Witness ==
    /\ Len(hist) = 2
    /\ ~hist[1].ok /\ hist[1].inserted # <<>>
    /\ hist[2].ok /\ hist[2].inserted # <<>>

\* C6 (frame): a completed call adds one row m-01 per distinct missing target
\* month and changes nothing else: the rows found keep their content and order,
\* the header stays row 1.
C6_ExistingRowsUndisturbed ==
    \A i \in Done :
        LET h == hist[i]
        IN  /\ Len(h.after) = Len(h.before) + Len(MissingOf(h))
            /\ Len(h.inserted) = Cardinality(Range(h.months) \ MonthsIn(h.before))
            /\ h.after[1] = h.before[1]
            /\ InsertedAsLogged(h.after, h.inserted)
            /\ Undo(h.after, h.inserted) = h.before
            /\ SelectSeq(h.after, LAMBDA row : row.data # 0)
                   = orig

C6_Witness ==
    \E i \in Done :
        /\ Len(hist[i].inserted) >= 2
        /\ Len(hist[i].before) = MaxRows + 1
        /\ hist[i].inserted[1][1] < Len(hist[i].before)

\* The month the header cell would parse to, were it parsed (None if none).
HeaderMonth(ws) == parse_month_cell_to_yyyymm(ws[1].a)

\* C11 (skip header): row 1 is never read as a month: no mapping returned sends
\* a month to row 1, a month that only the header cell shows counts as missing
\* and gets its row, no insertion is made at row 1 and the working list never
\* tracks row 1.
C11_HeaderRowSkipped ==
    /\ \A k \in DOMAIN inserted[1] : inserted[1][k][1] >= 2
    /\ \A k \in DOMAIN existing_sorted[1] : existing_sorted[1][k][1] >= 2
    /\ sheet[1] = orig[1]
    /\ \A i \in Done :
          LET h == hist[i]
          IN  /\ \A m \in DOMAIN h.index : h.index[m] >= 2
              /\ (/\ HeaderMonth(h.before) \in Range(h.months)
                  /\ RowsOf(h.before, HeaderMonth(h.before)) = {})
                    => \E k \in DOMAIN h.inserted : h.inserted[k][2] = HeaderMonth(h.before)
              /\ HeaderMonth(h.after) \notin MonthsIn(h.after)
                    => HeaderMonth(h.after) \notin DOMAIN h.index

C11_Witness ==
    \E i \in Done :
        /\ HeaderMonth(hist[i].before) \in Range(hist[i].months)
        /\ RowsOf(hist[i].before, HeaderMonth(hist[i].before)) = {}
        /\ MonthRows(hist[i].before) # {}
        /\ \E k \in DOMAIN hist[i].inserted :
              hist[i].inserted[k][2] = HeaderMonth(hist[i].before)

\* C12 (empty-sheet bootstrap): when the call finds no month row below the
\* header, with or without other rows there, its first insertion is at row 2:
\* the new row m-01 sits right under the header, the rows found move down.
C12_FirstRowUnderHeader ==
    (inserted[1] # <<>> /\ MonthRows(before[1]) = {}) =>
        /\ inserted[1][1][1] = 2
        /\ Len(inserted[1]) = 1 =>
              /\ sheet[1] = before[1][1]
              /\ sheet[2] = Row(DateStr(inserted[1][1][2]), 0)
              /\ SubSeq(sheet, 3, Len(sheet)) = SubSeq(before[1], 2, Len(before[1]))

C12_Witness ==
    /\ Len(inserted[1]) = 1
    /\ MonthRows(before[1]) = {}
    /\ Len(before[1]) = 3
    /\ sheet[2].a = DateStr(Head(TargetMonths(months[1])))

\* C13 (working list): after every insertion of a call the working list agrees
\* with the worksheet: it is in ascending month order, it holds one pair per
\* month row of the sheet, and each pair (r, m) names a row r whose cell parses
\* to m.
C13_WorkingListTracksSheet ==
    inserted[1] # <<>> =>
        LET es  == existing_sorted[1]
            col == Parsed(sheet)
        IN  /\ \A j, k \in DOMAIN es : j < k => ~StrLess(es[k][2], es[j][2])
            /\ Len(es) = Cardinality(MonthRows(sheet))
            /\ { es[k][1] : k \in DOMAIN es } = MonthRows(sheet)
            /\ \A k \in DOMAIN es : col[es[k][1]] = es[k][2]

C13_Witness ==
    /\ Len(inserted[1]) >= 2
    /\ Cardinality(MonthRows(before[1])) = 2
    /\ ~Ascending(before[1])
    /\ inserted[1][1][1] = 2

----------------------------------------------------------------------------
(* The parser on its own: one cell is parsed                               *)

YearStrings == { <<"2","0","2","5">>, <<"1","9","9","9">>, <<"0","0","0","1">> }

\* Months written with one digit or with two.
MonthStrings == { <<"1">>, <<"9">>, <<"0","1">>, <<"0","2">>, <<"0","9">>, <<"1","0">>, <<"1","2">> }

\* A month key as the data model words it: 4-digit year, 1-2-digit month.
MonthKeys == { y \o <<"-">> \o mo : y \in YearStrings, mo \in MonthStrings }

\* A month key YYYY-MM, as the callers of ensure_month_rows format it.
CanonicalMonthKeys == { m \in MonthKeys : Len(m) = 7 }

FieldDigits == {"0", "1", "3", "5", "6"}

\* The 1-2-digit fields A and B of a slash date.
SlashFields == { <<d>> : d \in FieldDigits } \cup { <<d, e>> : d \in FieldDigits, e \in FieldDigits }

SlashCell(a, b, y) == a \o <<"/">> \o b \o <<"/">> \o y

SlashCells == { SlashCell(a, b, y) : a \in SlashFields, b \in SlashFields, y \in YearStrings }

OtherCells ==
    { <<>>, <<"t","o","t","a","l">>, <<"2","0","2","5","-","0","1">>, <<"J","a","n"," ","2","0","2","5">>, <<"S","e","p","t","."," ","2","0","2","5">>, <<" ","I","u","n","i","e"," "," ","2","0","2","5"," ">>,
      <<"2","0","2","5","-","0","1","-","0","1"," ","0","0",":","0","0",":","0","0">>, <<"M","A","I"," ","2","0","2","5">>, <<"2","0","2","5","/","0","1","/","0","1">>, <<"1","/","2","/","2","5">> }

ParserInputs == { DateStr(m) : m \in MonthKeys } \cup SlashCells \cup OtherCells

Parse ==
    /\ ppc = "ready"
    /\ parsed' = parse_month_cell_to_yyyymm(cell_value)
    /\ ppc' = "done"
    /\ UNCHANGED cell_value
    /\ UNCHANGED recVars
    /\ UNCHANGED runVars

InitParse ==
    /\ cell_value \in ParserInputs
    /\ parsed = None
    /\ ppc = "ready"
    /\ InitReconciler(<<>>, [p \in Callers |-> <<>>], "serial")
    /\ RunIdle

NextParse == Parse

SpecParse == InitParse /\ [][NextParse]_vars

\* C9 as stated: for every month key of a 4-digit year and a 1-2-digit month, the
\* cell m-01 parses back to m.
C9_RoundTripAnyMonthKey ==
    \A m \in MonthKeys :
        (ppc = "done" /\ cell_value = DateStr(m)) => parsed = m

\* C9 (amended): for every month key YYYY-MM (4-digit year, 2-digit month), the
\* cell m-01 parses back to m.
C9_RoundTripCanonical ==
    \A m \in CanonicalMonthKeys :
        (ppc = "done" /\ cell_value = DateStr(m)) => parsed = m

C9_Witness ==
    /\ ppc = "done"
    /\ cell_value = <<"2","0","2","5","-","0","2","-","0","1">>
    /\ parsed = <<"2","0","2","5","-","0","2">>

\* The month the heuristic picks, as two digits.
SlashExpected(a, b, y) ==
    y \o <<"-">> \o FormatInt(IF ToInt(a) > 12 THEN ToInt(b) ELSE ToInt(a), 2)

\* C10 (slash dates): A/B/YYYY parses to YYYY with month B when A > 12 and with
\* month A otherwise, and is never unrecognized.
C10_SlashHeuristic ==
    /\ \A a \in SlashFields, b \in SlashFields, y \in YearStrings :
          (ppc = "done" /\ cell_value = SlashCell(a, b, y)) =>
              parsed # None /\ parsed = SlashExpected(a, b, y)
    /\ (ppc = "done" /\ cell_value = <<"1","3","/","0","1","/","2","0","2","5">>) => parsed = <<"2","0","2","5","-","0","1">>
    /\ (ppc = "done" /\ cell_value = <<"0","1","/","1","3","/","2","0","2","5">>) => parsed = <<"2","0","2","5","-","0","1">>
    /\ (ppc = "done" /\ cell_value = <<"0","5","/","0","6","/","2","0","2","5">>) => parsed = <<"2","0","2","5","-","0","5">>

C10_Witness ==
    /\ ppc = "done"
    /\ cell_value = <<"0","5","/","0","6","/","2","0","2","5">>
    /\ parsed = <<"2","0","2","5","-","0","5">>

----------------------------------------------------------------------------
(* Two callers on one worksheet                                            *)

ConcTargetLists ==
    { <<<<"2","0","2","5","-","0","2">>>>,
      <<<<"2","0","2","5","-","0","3">>, <<"2","0","2","5","-","0","2">>>> }

ConcWorksheets == { ws \in Worksheets : ws[1].a = <<"L","u","n","a">> }

InitConc ==
    /\ \E ws \in ConcWorksheets, ms \in [Callers -> ConcTargetLists],
          md \in {"serial", "interleaved"} :
          InitReconciler(ws, ms, md)
    /\ ParserIdle
    /\ RunIdle

\* Each caller reconciles once.
CallOnce(p) == pc[p] = "idle" /\ Call(p)

NextConc ==
    \E p \in Callers :
        \/ CallOnce(p)
        \/ InsertMonth(p)
        \/ Return(p)

SpecConc == InitConc /\ [][NextConc]_vars

\* No month has more than one row unless it had them from the start.
NoNewDuplicate ==
    \A m \in MonthsIn(sheet) :
        Cardinality(RowsOf(sheet, m)) <= 1 \/ Cardinality(RowsOf(sheet, m)) = Cardinality(RowsOf(orig, m))

\* C7 (concurrency): with the two calls serialized no month ever gets a second
\* row; the witness is the interleaved run in which both callers insert the same
\* missing month.
C7_NoDuplicateWhenSerialized == mode = "serial" => NoNewDuplicate

C7_DuplicateWhenInterleaved ==
    /\ mode = "interleaved"
    /\ \E m \in MonthsIn(sheet) :
          /\ RowsOf(orig, m) = {}
          /\ Cardinality(RowsOf(sheet, m)) = 2
          /\ \A p \in Callers : \E k \in DOMAIN inserted[p] : inserted[p][k][2] = m

----------------------------------------------------------------------------
(* The run block of app.py                                                 *)

\* The three group names of the form, stripped (the sheet headers asked for).
GroupNames == << <<"G","1">>, <<"G","2">>, <<"G","3">> >>

\* needed_headers: each name, then the name followed by " US".
RECURSIVE NeededFrom(_)
NeededFrom(names) ==
    IF names = <<>> THEN <<>>
    ELSE <<Head(names), Head(names) \o <<" ","U","S">>>> \o NeededFrom(Tail(names))

needed_headers == NeededFrom(GroupNames)

\* find_header_columns: stripped header -> 1-based column, blank headers skipped.
RECURSIVE HeaderColumnsFrom(_, _, _)
HeaderColumnsFrom(hs, idx, out) ==
    IF idx > Len(hs) THEN out
    ELSE IF Strip(hs[idx]) # <<>>
         THEN HeaderColumnsFrom(hs, idx + 1, DictSet(out, Strip(hs[idx]), idx))
         ELSE HeaderColumnsFrom(hs, idx + 1, out)

find_header_columns(hs) == HeaderColumnsFrom(hs, 1, EmptyDict)

\* Faulty variant: only the group names are looked for, their " US" columns are not.
MissingHeadersTotalsOnly(header_to_col) ==
    SelectSeq(GroupNames, LAMBDA h : h \notin DOMAIN header_to_col)

\* missing_headers = [h for h in needed_headers if h not in header_to_col]
missing_headers(header_to_col) ==
    SelectSeq(needed_headers, LAMBDA h : h \notin DOMAIN header_to_col)

\* The loop `for m in missing` of ensure_month_rows, run to its end.
RECURSIVE InsertAll(_, _, _)
InsertAll(ws, es, todo) ==
    IF todo = <<>> THEN ws
    ELSE LET m == Head(todo)
             insert_at == insert_row_index_for_month(es, m)
         IN  InsertAll(insert_row(ws, DateStr(m), insert_at),
                       Tracked(es, insert_at, m), Tail(todo))

\* The worksheet as a whole call of ensure_month_rows(ws, ms) leaves it.
Ensured(ws, ms) ==
    IF ms = <<>> THEN ws
    ELSE InsertAll(ws, SortByMonth(Existing(col_values(ws))),
                   Missing(ms, Existing(col_values(ws))))

\* dict.get(key, default)
Get(d, key, default) == IF key \in DOMAIN d THEN d[key] ELSE default

\* The six updates of one month row: per group its total, then its US value.
UpdatesOfRow(row, yyyymm, header_to_col, res) ==
    [k \in 1..(2 * Len(GroupNames)) |->
        <<row, header_to_col[needed_headers[k]], Get(res[k], yyyymm, 0)>>]

RECURSIVE Updates(_, _, _, _)
Updates(selected, m2r, header_to_col, res) ==
    IF selected = <<>> THEN <<>>
    ELSE IF Get(m2r, Head(selected), 0) = 0
         THEN Updates(Tail(selected), m2r, header_to_col, res)
         ELSE UpdatesOfRow(m2r[Head(selected)], Head(selected), header_to_col, res)
                  \o Updates(Tail(selected), m2r, header_to_col, res)

\* What a revenue query may answer: no rows, or an amount for 2025-02.
RevenuePool == { EmptyDict, [m \in { <<"2","0","2","5","-","0","2">> } |-> 7] }

\* The button is pressed: the form is checked (lines 212-226).
RunForm ==
    /\ rpc = "form"
    /\ rpc' = IF form.filled /\ months[1] # <<>> THEN "open" ELSE "stopped_form"
    /\ UNCHANGED <<form, headers, month_to_row, results, written, trace>>
    /\ UNCHANGED <<recVars, parseVars>>

\* Row 1 is read and the six headers are looked up; st.stop() when one is missing.
RunHeaders ==
    /\ rpc = "open"
    /\ trace' = Append(trace, "row_values")
    /\ rpc' = IF missing_headers(find_header_columns(headers)) # <<>>
              THEN "stopped_headers" ELSE "rows"
    /\ UNCHANGED <<form, headers, month_to_row, results, written>>
    /\ UNCHANGED <<recVars, parseVars>>

\* month_to_row: from ensure_month_rows when auto_create, else from the index.
RunRows ==
    /\ rpc = "rows"
    /\ sheet' = IF form.auto_create THEN Ensured(sheet, months[1]) ELSE sheet
    /\ month_to_row' = build_month_row_index(sheet')
    /\ trace' = Append(trace, IF form.auto_create THEN "ensure_month_rows"
                                                   ELSE "build_month_row_index")
    /\ rpc' = "query"
    /\ UNCHANGED <<form, headers, results, written>>
    /\ UNCHANGED <<orig, mode, months, pc, existing_sorted, missing, ret, before,
                   inserted, calls, hist>>
    /\ UNCHANGED parseVars

\* One revenue query (total or US of one group).
RunQuery ==
    /\ rpc = "query"
    /\ Len(results) < 2 * Len(GroupNames)
    /\ \E r \in RevenuePool : results' = Append(results, r)
    /\ trace' = Append(trace, "query")
    /\ UNCHANGED <<rpc, form, headers, month_to_row, written>>
    /\ UNCHANGED <<recVars, parseVars>>

\* The updates are built and written in one batch (nothing is sent when empty).
RunWrite ==
    /\ rpc = "query"
    /\ Len(results) = 2 * Len(GroupNames)
    /\ LET updates == Updates(months[1], month_to_row, find_header_columns(headers), results)
       IN  /\ written' = updates
           /\ trace' = Append(trace, "batch_write_values")
    /\ rpc' = "finished"
    /\ UNCHANGED <<form, headers, month_to_row, results>>
    /\ UNCHANGED <<recVars, parseVars>>

\* ensure_month_rows raises at one of its insertions: the rows inserted before
\* stay, the run reports the exception and ends.
RunRowsFail ==
    /\ rpc = "rows"
    /\ form.auto_create
    /\ LET existing == Existing(col_values(sheet))
           todo == Missing(months[1], existing)
       IN  \E k \in 0..(Len(todo) - 1) :
               sheet' = InsertAll(sheet, SortByMonth(existing), SubSeq(todo, 1, k))
    /\ trace' = Append(trace, "ensure_month_rows")
    /\ rpc' = "error"
    /\ UNCHANGED <<form, headers, month_to_row, results, written>>
    /\ UNCHANGED <<orig, mode, months, pc, existing_sorted, missing, ret, before,
                   inserted, calls, hist>>
    /\ UNCHANGED parseVars

\* A read of the sheet, a revenue query or the batch write raises: the run
\* reports the exception and ends.
RunFails ==
    /\ rpc \in {"rows", "query"}
    /\ rpc' = "error"
    /\ UNCHANGED <<form, headers, month_to_row, results, written, trace>>
    /\ UNCHANGED <<recVars, parseVars>>

HeaderCell(h, padded) == IF padded THEN <<" ">> \o h \o <<" ">> ELSE h

\* Row 1: the column-A header, then the headers of `present`, in the needed order.
HeaderRow(a, present, padded) ==
    <<a>> \o [i \in 1..Len(SelectSeq(needed_headers, LAMBDA h : h \in present)) |->
                 HeaderCell(SelectSeq(needed_headers, LAMBDA h : h \in present)[i], padded)]

RunWorksheets ==
    { Worksheet(<<"L","u","n","a">>, <<>>),
      Worksheet(<<"L","u","n","a">>, <<<<"2","0","2","5","-","0","1","-","0","1">>, <<"0","3","/","1","5","/","2","0","2","5">>>>),
      Worksheet(<<"L","u","n","a">>, <<<<"F","e","b"," ","2","0","2","5">>, <<"t","o","t","a","l">>>>) }

RunTargetLists == { <<>>, <<<<"2","0","2","5","-","0","2">>>>, <<<<"2","0","2","5","-","0","2">>, <<"2","0","2","5","-","0","3">>>> }

InitRun ==
    /\ \E ws \in RunWorksheets, ms \in RunTargetLists :
          InitReconciler(ws, [p \in Callers |-> IF p = 1 THEN ms ELSE <<>>], "serial")
    /\ ParserIdle
    /\ rpc = "form"
    /\ form \in [filled : BOOLEAN, auto_create : BOOLEAN]
    /\ \E present \in SUBSET Range(needed_headers), padded \in BOOLEAN :
          headers = HeaderRow(sheet[1].a, present, padded)
    /\ month_to_row = EmptyDict
    /\ results = <<>>
    /\ written = <<>>
    /\ trace = <<>>

NextRun ==
    \/ RunForm
    \/ RunHeaders
    \/ RunRows
    \/ RunQuery
    \/ RunWrite
    \/ RunRowsFail
    \/ RunFails

SpecRun == InitRun /\ [][NextRun]_vars

\* A needed header is absent when no cell of row 1 is it (blanks around a header
\* do not count, as find_header_columns strips them).
AbsentHeaders ==
    { h \in Range(needed_headers) : \A i \in DOMAIN headers : Strip(headers[i]) # h }

\* C8 (missing headers): when one of the six needed headers is absent from row 1,
\* the run never calls ensure_month_rows, a revenue query or batch_write_values:
\* the worksheet stays as it was and nothing is written.
C8_MissingHeadersStopBeforeMutation ==
    AbsentHeaders # {} =>
        /\ sheet = orig
        /\ written = <<>>
        /\ results = <<>>
        /\ Range(trace) \subseteq {"row_values"}
        /\ rpc \in {"form", "stopped_form", "open", "stopped_headers"}

C8_Witness ==
    /\ rpc = "stopped_headers"
    /\ AbsentHeaders = { <<"G","2"," ","U","S">> }
    /\ form.auto_create
    /\ \E m \in Range(months[1]) : m \notin MonthsIn(sheet)

====
